---- MODULE Spec2Model ----
(***************************************************************************)
(* The image-processing Lambda handler (src/src/lambda_function.py) as a   *)
(* state machine: one handler instance with its process-wide warm flag,    *)
(* the result table, and the handler body cut into its steps.              *)
(*                                                                         *)
(* Encodings                                                               *)
(*   - an object key is a sequence of Unicode code points;                 *)
(*   - a duration is an integer number of ticks, Tick ticks to the         *)
(*     millisecond.  Tick = 2^18 makes 200 + min(size/10MiB, 1) * 1800     *)
(*     an exact integer for every integer size (1800 / 10485760 =          *)
(*     45 / 2^18), so the arithmetic below is the exact value of the       *)
(*     expression the code evaluates in floating point;                    *)
(*   - a value rounded to two decimals (round(x, 2) stored as Decimal) is  *)
(*     an integer number of hundredths.                                    *)
(***************************************************************************)
EXTENDS Integers, Sequences, FiniteSets, TLC

VARIABLES
    is_warm,       \* the module global _is_warm
    bucket,        \* the S3 bucket: object key -> object
    table,         \* the DynamoDB table: filename -> item
    invocations,   \* calls of lambda_handler made on this instance so far
    pc,            \* position of the handler: "idle" between calls
    event,         \* the event of the current / last call
    frame,         \* the locals of the call in progress
    calls,         \* what the current / last call did, in order
    result,        \* how the last call ended: returned value or raised exception
    lm,            \* latency formula applied on its own (SpecLatency)
    instance,      \* the handler instance the variables above belong to
    parked,        \* the other handler instances: their flag and call state
    xf,            \* extract_metrics.py: transform_to_dataframe, its input and output
    nm,            \* the resource name a tool settles on
    av,            \* add_realistic_variation.py: one row and its overhead
    sc,            \* extract_metrics.py: scan_dynamodb_table, its loop
    rp,            \* trigger_lambda.py: trigger_lambda_for_objects, its loop
    up,            \* load_generator.py: upload_images, its loop
    rv             \* add_realistic_variation.py: main run again and again on a file

\* the variables of the tools, which no step of the handler touches
tool_vars == <<lm, xf, nm, av, sc, rp, up, rv>>

\* what no step of the handler touches
aside == <<instance, parked, tool_vars>>

vars == <<is_warm, bucket, table, invocations, pc, event, frame, calls, result, aside>>

handler_vars == <<is_warm, bucket, table, invocations, pc, event, frame, calls, result>>

\* ------------------------------------------------------------------ bounds

MaxInvocations == 3     \* calls made on one instance
MaxRecords == 2         \* records in one event
GridPoints == 16        \* 1 MiB steps of the file sizes of SpecLatency

\* --------------------------------------------------------- program constants

\* the unit of time of the model: 2^18 ticks to the millisecond
Tick == 512 * 512
FloorMs == 200
RangeMs == 1800
LongTailMs == 1000
LongTailPct == 5        \* random.random() < 0.05, the draw in hundredths
ScoreDen == 10 * 1024 * 1024

None == "None"
Labels == {"Document", "Receipt", "Photo"}

Min(a, b) == IF a <= b THEN a ELSE b

\* ----------------------------------------------------- urllib.parse.unquote_plus

HexDigits == (48..57) \cup (65..70) \cup (97..102)

HexVal(c) == IF c \in 48..57 THEN c - 48
             ELSE IF c \in 65..70 THEN c - 55
             ELSE c - 87

\* One byte of an escape decoded as UTF-8 with errors='replace'.  A byte of
\* 0x80..0xBF standing alone is a stray continuation byte and becomes U+FFFD;
\* the keys used here produce no lead byte (0xC2..0xF4).
Utf8Char(b) == IF b < 128 THEN b ELSE 65533

\* '+' becomes ' ' before the escapes are decoded, so %2B stays '+'.
PlusToSpace(s) == [j \in 1..Len(s) |-> IF s[j] = 43 THEN 32 ELSE s[j]]

RECURSIVE unquote_from(_, _)
unquote_from(s, j) ==
    IF j > Len(s) THEN <<>>
    ELSE IF s[j] = 37 /\ j + 2 <= Len(s)
            /\ s[j + 1] \in HexDigits /\ s[j + 2] \in HexDigits
         THEN <<Utf8Char(16 * HexVal(s[j + 1]) + HexVal(s[j + 2]))>>
              \o unquote_from(s, j + 3)
         ELSE <<s[j]>> \o unquote_from(s, j + 1)

unquote(s) == unquote_from(s, 1)

unquote_plus(s) == unquote(PlusToSpace(s))

\* ------------------------------------------------------------ latency formula

\* the score without its cap
complexity_score_uncapped(file_size) == file_size

\* min(file_size / (10 * 1024 * 1024), 1.0), as its numerator over ScoreDen
complexity_score(file_size) == Min(file_size, ScoreDen)

\* the latency falling, not rising, with the score
base_latency_falling(file_size) ==
    (FloorMs + RangeMs) * Tick
        - complexity_score(file_size) * ((RangeMs * Tick) \div ScoreDen)

\* 200 + complexity_score * 1800, in ticks
base_latency(file_size) ==
    FloorMs * Tick + complexity_score(file_size) * ((RangeMs * Tick) \div ScoreDen)

\* the comparison with <= for <
long_tail_inclusive(draw) == draw <= LongTailPct

\* random.random() < 0.05
long_tail(draw) == draw < LongTailPct

simulated_latency_ms(file_size, draw) ==
    IF long_tail(draw) THEN base_latency(file_size) + LongTailMs * Tick
    ELSE base_latency(file_size)

\* round(x, 2) of x ticks, in hundredths of a millisecond: x * 100 / Tick
\* rounded to the nearest integer, ties to even.
Round2(x) ==
    LET den == Tick \div 4
        q == x \div den
        n == 25 * (x % den)
        h == 25 * q + n \div den
        rest == n % den
    IN  IF 2 * rest > den \/ (2 * rest = den /\ h % 2 = 1) THEN h + 1 ELSE h

\* ------------------------------------------------------------------- inputs

\* "a", "m%20f", "m+f": the last two both decode to "m f"
RawKeys == { <<97>>, <<109, 37, 50, 48, 102>>, <<109, 43, 102>> }

BucketName == "images"

S3Records == [bucket : {BucketName}, key : RawKeys]

RECURSIVE SeqsUpTo(_, _)
SeqsUpTo(S, n) ==
    IF n = 0 THEN {<<>>}
    ELSE LET shorter == SeqsUpTo(S, n - 1)
         IN  shorter \cup {Append(s, x) : s \in {t \in shorter : Len(t) = n - 1}, x \in S}

\* an event without the Records key
NoRecordsEvent == [source |-> "test"]

Events == [Records : SeqsUpTo(S3Records, MaxRecords)] \cup {NoRecordsEvent}

\* an object of the bucket: its length in bytes and what Pillow finds in it
ImageObject(size) == [size |-> size, width |-> 64, height |-> 48, format |-> "PNG"]
CorruptObject == [size |-> 12, width |-> 0, height |-> 0, format |-> "corrupt"]

KeyA == <<97>>               \* "a"
KeyMF == <<109, 32, 102>>    \* "m f"

\* the bucket contents a run can start from: images of 100 KiB and of 5 MiB
\* and 128 bytes;
\* an image above 10 MiB alone; an image of exactly 10 MiB beside a corrupt
\* object
Buckets ==
    { (KeyA :> ImageObject(102400)) @@ (KeyMF :> ImageObject(5 * 1048576 + 128)),
      (KeyMF :> ImageObject(11 * 1048576)),
      (KeyA :> ImageObject(ScoreDen)) @@ (KeyMF :> CorruptObject) }

\* time that passes between start_time and end_time beyond the requested
\* sleep (download, decoding, oversleeping), in ticks
Delays == {0, Tick}

\* values of random.random(), in hundredths: either side of 0.05
Draws == {4, 5}

\* ------------------------------------------------------------------ handler

\* event.get('Records', [])
Records(ev) == IF "Records" \in DOMAIN ev THEN ev.Records ELSE <<>>

NoFrame ==
    [ is_cold_start |-> None, record_index |-> None, elapsed |-> None,
      bucket_name |-> None, object_key |-> None, image_data |-> None,
      file_size |-> None, width |-> None, height |-> None, image_format |-> None,
      simulated_latency_ms |-> None, classification |-> None,
      actual_execution_time_ms |-> None, record_data |-> None ]

Pending == [kind |-> "pending"]

\* the latency formula not yet applied
NoLatency ==
    [ evaluated |-> FALSE, file_size |-> 0, draw |-> 0, complexity_score |-> 0,
      base_latency |-> 0, simulated_latency_ms |-> 0 ]

\* a freshly started execution environment: module level, lines 10-18
HandlerInit ==
    /\ is_warm = FALSE
    /\ bucket \in Buckets
    /\ table = <<>>
    /\ invocations = 0
    /\ pc = "idle"
    /\ event = NoRecordsEvent
    /\ frame = NoFrame
    /\ calls = <<>>
    /\ result = Pending

\* transform_to_dataframe not yet called
NotTransformed == [evaluated |-> FALSE]

\* no resource name settled yet
NotResolved == [evaluated |-> FALSE]

\* add_realistic_variation not yet applied
NotVaried == [evaluated |-> FALSE]

\* scan_dynamodb_table not yet called
NotScanned == [pc |-> "idle"]

\* trigger_lambda_for_objects not yet called
NotReplaying == [pc |-> "idle"]

\* upload_images not yet called
NotUploading == [pc |-> "idle"]

\* the metrics file not yet written
NoFile == [present |-> FALSE, runs |-> 0]

\* no tool run yet
ToolsInit ==
    /\ lm = NoLatency
    /\ xf = NotTransformed
    /\ nm = NotResolved
    /\ av = NotVaried
    /\ sc = NotScanned
    /\ rp = NotReplaying
    /\ up = NotUploading
    /\ rv = NoFile

\* one instance alone, no tool run yet
Init ==
    /\ HandlerInit
    /\ ToolsInit
    /\ instance = 1
    /\ parked = <<>>

\* Invoke without the assignment to the global flag
Invoke_flag_not_set(ev) ==
    /\ pc = "idle"
    /\ invocations < MaxInvocations
    /\ invocations' = invocations + 1
    /\ event' = ev
    /\ frame' = [NoFrame EXCEPT !.elapsed = 0,
                                !.is_cold_start = ~is_warm,
                                !.record_index = 1]
    /\ calls' = <<>>
    /\ result' = Pending
    /\ pc' = "for_record"
    /\ UNCHANGED <<is_warm, bucket, table, aside>>

\* lines 26-37: the platform calls lambda_handler(event, context)
Invoke(ev) ==
    /\ pc = "idle"
    /\ invocations < MaxInvocations
    /\ invocations' = invocations + 1
    /\ event' = ev
    /\ frame' = [NoFrame EXCEPT !.elapsed = 0,
                                !.is_cold_start = ~is_warm,
                                !.record_index = 1]
    /\ is_warm' = TRUE
    /\ calls' = <<>>
    /\ result' = Pending
    /\ pc' = "for_record"
    /\ UNCHANGED <<bucket, table, aside>>

\* an except clause that logs e and goes on with the next record
Raise_swallowed(e) ==
    /\ frame' = [frame EXCEPT !.record_index = @ + 1]
    /\ pc' = "for_record"
    /\ UNCHANGED result

\* lines 117-119: the except clause logs e and raises it again; the call ends
Raise(e) ==
    /\ result' = [kind |-> "raised", exception |-> e]
    /\ frame' = NoFrame
    /\ pc' = "idle"

\* event['Records'] in place of event.get('Records', []): no records, KeyError
ReturnNone_key_error ==
    /\ result' = [kind |-> "raised", exception |-> "KeyError"]
    /\ frame' = NoFrame
    /\ pc' = "idle"

\* the for loop is exhausted and the function ends without a return statement
ReturnNone ==
    /\ result' = [kind |-> "returned_none"]
    /\ frame' = NoFrame
    /\ pc' = "idle"

\* lines 41-44: the next record of the event, its bucket and its decoded key
ForRecord ==
    /\ pc = "for_record"
    /\ IF frame.record_index > Len(Records(event))
       THEN ReturnNone /\ UNCHANGED calls
       ELSE LET record == Records(event)[frame.record_index]
            IN  /\ frame' = [frame EXCEPT !.bucket_name = record.bucket,
                                          !.object_key = unquote_plus(record.key)]
                /\ calls' = Append(calls, [op |-> "record", index |-> frame.record_index])
                /\ pc' = "get_object"
                /\ UNCHANGED result
    /\ UNCHANGED <<is_warm, bucket, table, invocations, event, aside>>

\* get_object called with the key as the event spells it
GetObjectKey_raw == Records(event)[frame.record_index].key

\* the Key argument of s3_client.get_object (line 48)
GetObjectKey == frame.object_key

\* lines 46-50: download the object; the store answers with a body or an error
GetObject ==
    /\ pc = "get_object"
    /\ \/ /\ calls' = Append(calls, [op |-> "get_object", Bucket |-> frame.bucket_name,
                                     Key |-> GetObjectKey, ok |-> FALSE])
          /\ Raise(IF GetObjectKey \in DOMAIN bucket THEN "ClientError" ELSE "NoSuchKey")
       \/ /\ GetObjectKey \in DOMAIN bucket
          /\ calls' = Append(calls, [op |-> "get_object", Bucket |-> frame.bucket_name,
                                     Key |-> GetObjectKey, ok |-> TRUE,
                                     ContentLength |-> bucket[GetObjectKey].size])
          /\ frame' = [frame EXCEPT !.image_data = bucket[GetObjectKey],
                                    !.file_size = bucket[GetObjectKey].size]
          /\ pc' = "image_open"
          /\ UNCHANGED result
    /\ UNCHANGED <<is_warm, bucket, table, invocations, event, aside>>

\* lines 52-55: Pillow reads size and format, or cannot identify the image
ImageOpen ==
    /\ pc = "image_open"
    /\ IF frame.image_data.format = "corrupt"
       THEN /\ calls' = Append(calls, [op |-> "Image.open", ok |-> FALSE])
            /\ Raise("UnidentifiedImageError")
       ELSE /\ calls' = Append(calls, [op |-> "Image.open", ok |-> TRUE])
            /\ frame' = [frame EXCEPT !.width = frame.image_data.width,
                                      !.height = frame.image_data.height,
                                      !.image_format =
                                          IF frame.image_data.format = None THEN "Unknown"
                                          ELSE frame.image_data.format]
            /\ pc' = "latency"
            /\ UNCHANGED result
    /\ UNCHANGED <<is_warm, bucket, table, invocations, event, aside>>

\* lines 59-70: the simulated latency, with one draw for the long tail
Latency ==
    /\ pc = "latency"
    /\ \E draw \in Draws :
        /\ calls' = Append(calls, [op |-> "random", value |-> draw])
        /\ frame' = [frame EXCEPT
                        !.simulated_latency_ms = simulated_latency_ms(frame.file_size, draw)]
    /\ pc' = "sleep"
    /\ UNCHANGED <<is_warm, bucket, table, invocations, event, result, aside>>

\* the milliseconds divided by 1000 twice
SleepTime_microseconds(ticks, d) == ticks \div 1000 + d

\* how long time.sleep(seconds) blocks when it oversleeps by d: never less
\* than asked
SleepTime(ticks, d) == ticks + d

\* the sleep started but not waited for: the call goes on at once
Sleep_not_blocking ==
    /\ pc = "sleep"
    /\ calls' = Append(calls, [op |-> "sleep", ticks |-> frame.simulated_latency_ms])
    /\ pc' = "build_record"
    /\ UNCHANGED <<is_warm, bucket, table, invocations, event, frame, result, aside>>

\* line 73: time.sleep(simulated_latency_ms / 1000.0)
Sleep ==
    /\ pc = "sleep"
    /\ \E d \in Delays :
        /\ calls' = Append(calls, [op |-> "sleep", ticks |-> frame.simulated_latency_ms])
        /\ frame' = [frame EXCEPT !.elapsed = @ + SleepTime(frame.simulated_latency_ms, d)]
    /\ pc' = "build_record"
    /\ UNCHANGED <<is_warm, bucket, table, invocations, event, result, aside>>

\* lines 85-96: the item; the timestamp is kept as whole seconds since the
\* call began
RecordData(f, classification, actual) ==
    [ filename |-> f.object_key,
      file_size |-> f.file_size,
      processing_latency |-> Round2(actual),
      is_cold_start |-> f.is_cold_start,
      simulated_classification |-> classification,
      width |-> f.width,
      height |-> f.height,
      format |-> f.image_format,
      timestamp |-> f.elapsed \div (1000 * Tick),
      simulated_latency |-> Round2(f.simulated_latency_ms) ]

\* lines 75-96: the label, the measured time and the item to store
BuildRecord ==
    /\ pc = "build_record"
    /\ \E classification \in Labels :
        /\ calls' = Append(calls, [op |-> "choice", value |-> classification])
        /\ frame' = [frame EXCEPT
                        !.classification = classification,
                        !.actual_execution_time_ms = frame.elapsed,
                        !.record_data = RecordData(frame, classification, frame.elapsed)]
    /\ pc' = "put_item"
    /\ UNCHANGED <<is_warm, bucket, table, invocations, event, result, aside>>

\* a conditional write: an item already stored under the filename is kept
Put_if_absent(t, item) ==
    [f \in DOMAIN t \cup {item.filename} |-> IF f \in DOMAIN t THEN t[f] ELSE item]

\* a write that leaves the new item alone in the table
Put_dropping_others(t, item) == (item.filename :> item)

\* table.put_item(Item=item): the item takes the place of any item with the
\* same filename
Put(t, item) ==
    [f \in DOMAIN t \cup {item.filename} |-> IF f = item.filename THEN item ELSE t[f]]

\* lines 98-100: write the item, or the write fails
PutItem ==
    /\ pc = "put_item"
    /\ \/ /\ calls' = Append(calls, [op |-> "put_item", Item |-> frame.record_data,
                                     ok |-> FALSE])
          /\ Raise("ClientError")
          /\ UNCHANGED table
       \/ /\ calls' = Append(calls, [op |-> "put_item", Item |-> frame.record_data,
                                     ok |-> TRUE])
          /\ table' = Put(table, frame.record_data)
          /\ pc' = "return"
          /\ UNCHANGED <<frame, result>>
    /\ UNCHANGED <<is_warm, bucket, invocations, event, aside>>

\* the response built but returned only after the loop: the loop goes on
ReturnResponse_after_loop ==
    /\ pc = "return"
    /\ result' = Pending
    /\ frame' = [frame EXCEPT !.record_index = @ + 1]
    /\ pc' = "for_record"
    /\ UNCHANGED <<is_warm, bucket, table, invocations, event, calls, aside>>

\* the response naming the key as the event spells it
ReturnResponse_raw_key ==
    /\ pc = "return"
    /\ result' = [ kind |-> "returned",
                   statusCode |-> 200,
                   body |-> [ message |-> "Image processed successfully",
                              filename |-> Records(event)[frame.record_index].key,
                              classification |-> frame.classification,
                              is_cold_start |-> frame.is_cold_start,
                              simulated_latency_ms |-> frame.simulated_latency_ms,
                              actual_execution_time_ms |-> frame.actual_execution_time_ms ] ]
    /\ frame' = NoFrame
    /\ pc' = "idle"
    /\ UNCHANGED <<is_warm, bucket, table, invocations, event, calls, aside>>

\* lines 105-115: the return statement inside the loop body ends the call
ReturnResponse ==
    /\ pc = "return"
    /\ result' = [ kind |-> "returned",
                   statusCode |-> 200,
                   body |-> [ message |-> "Image processed successfully",
                              filename |-> frame.object_key,
                              classification |-> frame.classification,
                              is_cold_start |-> frame.is_cold_start,
                              simulated_latency_ms |-> frame.simulated_latency_ms,
                              actual_execution_time_ms |-> frame.actual_execution_time_ms ] ]
    /\ frame' = NoFrame
    /\ pc' = "idle"
    /\ UNCHANGED <<is_warm, bucket, table, invocations, event, calls, aside>>

Next ==
    \/ \E ev \in Events : Invoke(ev)
    \/ ForRecord
    \/ GetObject
    \/ ImageOpen
    \/ Latency
    \/ Sleep
    \/ BuildRecord
    \/ PutItem
    \/ ReturnResponse

Spec == Init /\ [][Next]_vars

\* ------------------------------------------------------------ observations

\* the positions in calls of the operations named op that succeeded
Done(op) == {j \in DOMAIN calls : calls[j].op = op /\ calls[j].ok}

\* the positions in calls where a record of the event was taken up
RecordsBegun == {j \in DOMAIN calls : calls[j].op = "record"}

\* the call ended by returning (a response or None) after only successes
AllSucceeded ==
    /\ pc = "idle"
    /\ result.kind \in {"returned", "returned_none"}
    /\ \A j \in DOMAIN calls : calls[j].op \in {"get_object", "Image.open", "put_item"} => calls[j].ok

ColdRows == {f \in DOMAIN table : table[f].is_cold_start}

\* -------------------------------------------------------------- properties

\* C1: within one handler lifetime the first call of lambda_handler computes
\* is_cold_start = true and every later call computes false, whatever the
\* events; the flag is cold before the first call, warm from it on, and no
\* step sets it back.
C1_FirstCallColdLaterWarm ==
    /\ [](is_warm <=> invocations >= 1)
    /\ [](pc # "idle" => (frame.is_cold_start <=> invocations = 1))
    /\ [](result.kind = "returned" => (result.body.is_cold_start <=> invocations = 1))
    /\ [][is_warm => is_warm']_vars

\* the second call of a lifetime in progress, computed warm
C1_Witness ==
    /\ invocations = 2
    /\ pc = "get_object"
    /\ frame.is_cold_start = FALSE
    /\ is_warm

\* C2: after any sequence of calls on the instance, events of several records
\* included, at most one persisted row has is_cold_start = true, and only the
\* first call writes such a row.
C2_AtMostOneColdRow ==
    /\ Cardinality(ColdRows) <= 1
    /\ Cardinality({j \in Done("put_item") : calls[j].Item.is_cold_start})
          <= (IF invocations = 1 THEN 1 ELSE 0)

\* a cold row beside a warm one, the cold one written for an event of two records
C2_Witness ==
    /\ Cardinality(ColdRows) = 1
    /\ Cardinality(DOMAIN table) = 2
    /\ \E f \in DOMAIN table : ~table[f].is_cold_start
    /\ Len(Records(event)) = 2
    /\ pc = "idle"

\* C3: a call on an event of n >= 1 records whose fetches, decodings and
\* writes all succeed persists exactly n rows, one per record.
C3_OneRowPerRecord ==
    (AllSucceeded /\ Len(Records(event)) >= 1)
        => Cardinality(Done("put_item")) = Len(Records(event))

\* C4: when a record is processed successfully the returned value describes
\* the first record: statusCode 200, the decoded key of the first record as
\* filename, and the classification and is_cold_start of the row persisted
\* for it.
C4_ResponseDescribesFirstRecord ==
    result.kind = "returned" =>
        /\ result.statusCode = 200
        /\ Len(Records(event)) >= 1
        /\ result.body.filename = unquote_plus(Records(event)[1].key)
        /\ result.body.filename \in DOMAIN table
        /\ table[result.body.filename].simulated_classification = result.body.classification
        /\ table[result.body.filename].is_cold_start = result.body.is_cold_start

\* a response for the percent-encoded first record of a two-record event
C4_Witness ==
    /\ result.kind = "returned"
    /\ Len(Records(event)) = 2
    /\ Records(event)[1].key = <<109, 37, 50, 48, 102>>
    /\ result.body.filename = KeyMF

\* C5: when the fetch, the decoding or the write of a record fails, the call
\* ends at once by raising that error: the failed step is the last thing
\* the call does (no retry, no later record), no row is written for the
\* failing record, and nothing is returned.
C5_FailureAbortsInvocation ==
    /\ [][(Len(calls') = Len(calls) + 1
             /\ calls'[Len(calls')].op \in {"get_object", "Image.open", "put_item"}
             /\ ~calls'[Len(calls')].ok)
            => (result'.kind = "raised" /\ pc' = "idle" /\ table' = table)]_vars
    /\ [](result.kind = "raised" =>
            /\ pc = "idle"
            /\ Len(calls) >= 1
            /\ calls[Len(calls)].op \in {"get_object", "Image.open", "put_item"}
            /\ ~calls[Len(calls)].ok
            /\ \A j \in 1..(Len(calls) - 1) :
                  calls[j].op \in {"get_object", "Image.open", "put_item"} => calls[j].ok
            /\ \A j \in Done("put_item") : \E k \in RecordsBegun : k > j)
    /\ [][(result.kind = "raised" /\ invocations' = invocations)
            => (calls' = calls /\ table' = table /\ result' = result)]_vars

\* a failed write: the fetch and the decoding succeeded, the table is as it was
C5_Witness ==
    /\ result.kind = "raised"
    /\ result.exception = "ClientError"
    /\ calls[Len(calls)].op = "put_item"
    /\ Len(Records(event)) = 2
    /\ table = <<>>

\* the record of the event that the operation at position j of calls belongs to
RecordOf(j) ==
    LET k == CHOOSE k \in RecordsBegun :
                 k < j /\ \A k2 \in RecordsBegun : k2 < j => k2 <= k
    IN  Records(event)[calls[k].index]

\* C6: for every record the key passed to get_object and the filename of the
\* persisted row are both the percent-decoded form of the event's key
\* (m%20f is fetched and stored as "m f"), never the key as the event
\* spells it when the two differ.
C6_DecodedKeyFetchedAndStored ==
    /\ \A j \in DOMAIN calls : calls[j].op = "get_object" =>
          /\ calls[j].Key = unquote_plus(RecordOf(j).key)
          /\ RecordOf(j).key = <<109, 37, 50, 48, 102>> => calls[j].Key = <<109, 32, 102>>
          /\ RecordOf(j).key = <<97>> => calls[j].Key = <<97>>
    /\ \A j \in DOMAIN calls : calls[j].op = "put_item" =>
          /\ calls[j].Item.filename = unquote_plus(RecordOf(j).key)
          /\ RecordOf(j).key = <<109, 37, 50, 48, 102>> => calls[j].Item.filename = <<109, 32, 102>>
          /\ RecordOf(j).key = <<97>> => calls[j].Item.filename = <<97>>
    /\ \A f \in DOMAIN table : table[f].filename = f /\ f \in {<<97>>, <<109, 32, 102>>}

\* m%20f fetched and stored as "m f"
C6_Witness ==
    /\ pc = "idle"
    /\ result.kind = "returned"
    /\ Records(event)[1].key = <<109, 37, 50, 48, 102>>
    /\ \E j \in Done("get_object") : calls[j].Key = <<109, 32, 102>>
    /\ \E j \in Done("put_item") : calls[j].Item.filename = <<109, 32, 102>>
    /\ <<109, 32, 102>> \in DOMAIN table

\* C9: the simulated latency is base_ms + 1000 when the draw is below 0.05
\* and base_ms when it is not, nothing else, and one draw is made for each
\* record processed.
C9_LongTailExactOneDrawPerRecord ==
    /\ \A j \in DOMAIN calls : calls[j].op = "sleep" =>
          /\ calls[j - 1].op = "random"
          /\ calls[j - 3].op = "get_object"
          /\ calls[j].ticks =
                base_latency(calls[j - 3].ContentLength)
                  + (IF calls[j - 1].value < 5 THEN 1000 * Tick ELSE 0)
    /\ \A j \in DOMAIN calls : calls[j].op = "random" => calls[j - 1].op = "Image.open"
    /\ \A j \in Done("Image.open") :
          IF j = Len(calls) THEN pc = "latency" ELSE calls[j + 1].op = "random"
    /\ result.kind = "returned" =>
          \E j \in DOMAIN calls :
              /\ calls[j].op = "sleep"
              /\ result.body.simulated_latency_ms = calls[j].ticks

\* a draw of exactly 0.05 above 10 MiB: no long tail, 2000 ms
C9_Witness ==
    /\ result.kind = "returned"
    /\ \E j \in DOMAIN calls : calls[j].op = "random" /\ calls[j].value = 5
    /\ result.body.simulated_latency_ms = 2000 * Tick

\* C10: every row the handler persists has processing_latency >= 200 ms: it
\* is the time from the start of the call to after the sleep, which is at
\* least the simulated latency, itself at least 200 ms.
C10_LatencyAtLeastFloor ==
    /\ \A f \in DOMAIN table :
          /\ table[f].processing_latency >= 20000
          /\ table[f].processing_latency >= table[f].simulated_latency
    /\ \A j \in DOMAIN calls : calls[j].op = "put_item" =>
          /\ calls[j].Item.processing_latency >= 20000
          /\ calls[j].Item.processing_latency >= calls[j].Item.simulated_latency

\* the 100 KiB image stored with 217.58 ms, no long tail and no delay
C10_Witness ==
    /\ <<97>> \in DOMAIN table
    /\ table[<<97>>].file_size = 102400
    /\ table[<<97>>].processing_latency = 21758

\* C11: for the record a call processes the steps come in the order fetch,
\* decode, block for the simulated latency, persist, return: a row is written
\* only after the block has completed, and a success response is returned
\* only after the row is in the table.
C11_StepsInOrder ==
    /\ [](\A j \in DOMAIN calls : calls[j].op = "put_item" =>
            /\ j >= 7
            /\ calls[j - 6].op = "record"
            /\ calls[j - 5].op = "get_object" /\ calls[j - 5].ok
            /\ calls[j - 4].op = "Image.open" /\ calls[j - 4].ok
            /\ calls[j - 3].op = "random"
            /\ calls[j - 2].op = "sleep"
            /\ calls[j - 1].op = "choice")
    /\ [][table' # table =>
            /\ pc = "put_item"
            /\ \E j \in DOMAIN calls : calls[j].op = "sleep"
            /\ frame.elapsed >= frame.simulated_latency_ms
            /\ frame.simulated_latency_ms >= FloorMs * Tick]_vars
    /\ [][(result'.kind = "returned" /\ result.kind # "returned") =>
            /\ pc = "return"
            /\ calls[Len(calls)].op = "put_item" /\ calls[Len(calls)].ok
            /\ frame.object_key \in DOMAIN table
            /\ table[frame.object_key] = calls[Len(calls)].Item
            /\ table' = table]_vars

\* a response returned after the row was written after a sleep of 2000 ms
C11_Witness ==
    /\ result.kind = "returned"
    /\ Len(calls) = 7
    /\ calls[5].op = "sleep" /\ calls[5].ticks = 2000 * Tick
    /\ calls[7].op = "put_item" /\ calls[7].ok
    /\ table[result.body.filename] = calls[7].Item

\* the operations a call may make on the store, the table and the library
HandlerOps == {"record", "get_object", "Image.open", "random", "sleep", "choice", "put_item"}

\* C13: the handler only reads the object store (get_object) and its only
\* table operation is put_item of the row of the record being processed: no
\* step updates or deletes a row that is already in the table, and rows of
\* other filenames stay as they are.
C13_NoExistingRowTouched ==
    /\ [][bucket' = bucket]_vars
    /\ [](\A j \in DOMAIN calls : calls[j].op \in HandlerOps)
    /\ [][\A f \in DOMAIN table : f \in DOMAIN table' /\ table'[f] = table[f]]_vars

\* C13, amended: the handler only reads the object store and its only table
\* operation is put_item of the row of the record being processed; no row is
\* deleted and rows of other filenames stay as they are, but a row already
\* stored under the filename of the record is replaced by the new row.
C13_OnlyOwnRowWritten ==
    /\ [][bucket' = bucket]_vars
    /\ [](\A j \in DOMAIN calls : calls[j].op \in HandlerOps)
    /\ [][table' # table =>
            /\ pc = "put_item"
            /\ frame.record_data.filename = frame.object_key
            /\ frame.object_key = unquote_plus(Records(event)[frame.record_index].key)
            /\ DOMAIN table' = DOMAIN table \cup {frame.object_key}
            /\ table'[frame.object_key] = frame.record_data
            /\ \A f \in DOMAIN table \ {frame.object_key} : table'[f] = table[f]]_vars

\* the third call has written its row; the cold row of another filename is
\* still there
C13_Witness ==
    /\ invocations = 3
    /\ pc = "return"
    /\ table[frame.object_key] = frame.record_data
    /\ \E f \in DOMAIN table : f # frame.object_key /\ table[f].is_cold_start

\* the instance is warm, the table holds no cold row and no cold call is in
\* progress
WarmWithoutColdRow ==
    /\ is_warm
    /\ ColdRows = {}
    /\ pc # "idle" => frame.is_cold_start = FALSE

\* C19: when the first call of a lifetime raises, the instance is warm all
\* the same: every later call computes and reports is_cold_start = false,
\* and that lifetime never writes a cold row.
C19_FailedFirstCallLeavesWarm ==
    /\ []((invocations = 1 /\ result.kind = "raised") => WarmWithoutColdRow)
    /\ [][(invocations >= 1 /\ WarmWithoutColdRow) => WarmWithoutColdRow']_vars
    /\ []((invocations >= 2 /\ result.kind = "returned") => ~result.body.is_cold_start)

\* the first call has raised on the corrupt object: warm, nothing stored
C19_Witness ==
    /\ invocations = 1
    /\ pc = "idle"
    /\ result.kind = "raised"
    /\ result.exception = "UnidentifiedImageError"
    /\ is_warm
    /\ table = <<>>

\* C20: a call whose event has no records (Records missing or empty) makes
\* no call to the store or the table, writes no row, raises nothing and
\* returns None; the instance is warm after it.
C20_NoRecordsNoEffect ==
    /\ []((invocations >= 1 /\ Len(Records(event)) = 0) =>
            /\ calls = <<>>
            /\ is_warm
            /\ pc \in {"for_record", "idle"}
            /\ pc = "idle" => result.kind = "returned_none"
            /\ pc # "idle" => result.kind = "pending")
    /\ [][Len(Records(event')) = 0 => (table' = table /\ bucket' = bucket)]_vars

\* a first call without the Records field has returned None
C20_Witness ==
    /\ invocations = 1
    /\ "Records" \notin DOMAIN event
    /\ pc = "idle"
    /\ result.kind = "returned_none"
    /\ is_warm
    /\ table = <<>>

\* ------------------------------------------- the latency formula on its own

\* file sizes from 0 to GridPoints MiB in steps of 1 MiB, and the sizes next
\* to 0 and to 10 MiB
FileSizes ==
    {k * 1048576 : k \in 0..GridPoints} \cup {1, 102400, ScoreDen - 1, ScoreDen + 1}

LatencyDraws == {0, 4, 5, 6, 99}

\* lines 59-70 applied to a file size and a draw
LatencyModel(file_size, draw) ==
    /\ lm' = [ evaluated |-> TRUE,
               file_size |-> file_size,
               draw |-> draw,
               complexity_score |-> complexity_score(file_size),
               base_latency |-> base_latency(file_size),
               simulated_latency_ms |-> simulated_latency_ms(file_size, draw) ]
    /\ UNCHANGED <<handler_vars, instance, parked, xf, nm, av, sc, rp, up, rv>>

NextLatency == \E file_size \in FileSizes, draw \in LatencyDraws : LatencyModel(file_size, draw)

SpecLatency == Init /\ [][NextLatency]_vars

\* C7: over file sizes from 0 to 10 MiB the base latency never decreases as
\* the size grows, and it is 200 ms at 0 bytes and 2000 ms at 10485760 bytes.
C7_BaseLatencyMonotone ==
    /\ [](lm.evaluated =>
            /\ lm.file_size = 0 => lm.base_latency = 200 * Tick
            /\ lm.file_size = 10485760 => lm.base_latency = 2000 * Tick)
    /\ [][(lm.evaluated /\ lm'.evaluated
             /\ lm.file_size <= lm'.file_size /\ lm'.file_size <= 10485760)
            => lm.base_latency <= lm'.base_latency]_vars

\* the formula applied at 10 MiB
C7_Witness ==
    /\ lm.evaluated
    /\ lm.file_size = 10485760
    /\ lm.base_latency = 2000 * Tick

\* C8: above 10 MiB the base latency is the one of exactly 10 MiB, 2000 ms,
\* and the complexity score never exceeds 1.
C8_CeilingAboveTenMiB ==
    lm.evaluated =>
        /\ lm.complexity_score <= ScoreDen
        /\ lm.file_size > 10485760 =>
              /\ lm.base_latency = 2000 * Tick
              /\ lm.complexity_score = ScoreDen

\* the formula applied one byte above 10 MiB
C8_Witness ==
    /\ lm.evaluated
    /\ lm.file_size = 10485761
    /\ lm.base_latency = 2000 * Tick

\* ------------------------------------------------- several handler instances

\* the execution environments the platform keeps: each is its own process
\* with its own module global _is_warm; the bucket and the table are shared
Instances == {1, 2}

\* calls made on all instances together
MaxFleetCalls == 3

\* the events sent to the fleet: a batch of two records
FleetEvents ==
    { [Records |-> << [bucket |-> BucketName, key |-> <<97>>],
                      [bucket |-> BucketName, key |-> <<109, 37, 50, 48, 102>>] >>] }

\* a freshly started execution environment that has not been called
FreshInstance ==
    [ is_warm |-> FALSE, invocations |-> 0, pc |-> "idle", event |-> NoRecordsEvent,
      frame |-> NoFrame, calls |-> <<>>, result |-> Pending ]

\* the state of the instance that is running
Running ==
    [ is_warm |-> is_warm, invocations |-> invocations, pc |-> pc, event |-> event,
      frame |-> frame, calls |-> calls, result |-> result ]

\* the state of instance i, running or not
InstanceState(i) == IF i = instance THEN Running ELSE parked[i]

RECURSIVE FleetCalls(_)
FleetCalls(S) ==
    IF S = {} THEN 0
    ELSE LET i == CHOOSE i \in S : TRUE
         IN  InstanceState(i).invocations + FleetCalls(S \ {i})

InitFleet ==
    /\ HandlerInit
    /\ ToolsInit
    /\ instance = 1
    /\ parked = [i \in Instances \ {1} |-> FreshInstance]

\* one flag for all instances: the flag stays behind when another instance runs
Switch_shared_flag(i) ==
    /\ i \in DOMAIN parked
    /\ instance' = i
    /\ parked' = [j \in (DOMAIN parked \ {i}) \cup {instance} |->
                     IF j = instance THEN Running ELSE parked[j]]
    /\ invocations' = parked[i].invocations
    /\ pc' = parked[i].pc
    /\ event' = parked[i].event
    /\ frame' = parked[i].frame
    /\ calls' = parked[i].calls
    /\ result' = parked[i].result
    /\ UNCHANGED <<is_warm, bucket, table, tool_vars>>

\* the processor leaves the running instance where it is and goes on with
\* instance i: every instance keeps its own globals and locals
Switch(i) ==
    /\ i \in DOMAIN parked
    /\ instance' = i
    /\ parked' = [j \in (DOMAIN parked \ {i}) \cup {instance} |->
                     IF j = instance THEN Running ELSE parked[j]]
    /\ is_warm' = parked[i].is_warm
    /\ invocations' = parked[i].invocations
    /\ pc' = parked[i].pc
    /\ event' = parked[i].event
    /\ frame' = parked[i].frame
    /\ calls' = parked[i].calls
    /\ result' = parked[i].result
    /\ UNCHANGED <<bucket, table, tool_vars>>

NextFleet ==
    \/ /\ FleetCalls(Instances) < MaxFleetCalls
       /\ \E ev \in FleetEvents : Invoke(ev)
    \/ ForRecord
    \/ GetObject
    \/ ImageOpen
    \/ Latency
    \/ Sleep
    \/ BuildRecord
    \/ PutItem
    \/ ReturnResponse
    \/ \E i \in Instances : Switch(i)

SpecFleet == InitFleet /\ [][NextFleet]_vars

\* C12: with several handler instances, each with its own warm flag, a call
\* on one instance never changes the flag of another; under every
\* interleaving of their steps the first call of each instance is cold and
\* its later calls are warm; and within one instance the records of a batch
\* are taken up strictly one after another.
C12_InstancesIsolated ==
    /\ [][\A i \in Instances :
            LET before == IF i = instance THEN is_warm ELSE parked[i].is_warm
                after == IF i = instance' THEN is_warm' ELSE parked'[i].is_warm
            IN  after # before =>
                    /\ instance = i /\ instance' = i
                    /\ invocations' = invocations + 1
                    /\ parked' = parked]_vars
    /\ [](\A i \in Instances :
            LET st == InstanceState(i)
            IN  /\ st.is_warm <=> st.invocations >= 1
                /\ st.pc # "idle" => (st.frame.is_cold_start <=> st.invocations = 1)
                /\ st.result.kind = "returned" =>
                      (st.result.body.is_cold_start <=> st.invocations = 1))
    /\ [](\A i \in Instances :
            LET c == InstanceState(i).calls
                begun == {j \in DOMAIN c : c[j].op = "record"}
            IN  \A j \in begun :
                    /\ c[j].index = Cardinality({k \in begun : k <= j})
                    /\ j > 1 => (c[j - 1].op = "put_item" /\ c[j - 1].ok))

\* instance 2 in its first call, cold, while instance 1 is stopped in the
\* middle of its second call, warm
C12_Witness ==
    /\ instance = 2
    /\ invocations = 1 /\ pc = "put_item" /\ frame.is_cold_start = TRUE
    /\ parked[1].invocations = 2 /\ parked[1].pc = "sleep"
    /\ parked[1].frame.is_cold_start = FALSE
    /\ Cardinality(ColdRows) = 1

\* -------------------------------- extract_metrics.py: transform_to_dataframe

\* items in a scanned list
MaxItems == 2

\* a value of a scanned item with its Python type t: numbers (Decimal, int,
\* float) are n hundredths, strings are s, booleans are b
Val(t, n, s, b) == [t |-> t, n |-> n, s |-> s, b |-> b]

\* item.get(field, default)
Get(item, field, default) == IF field \in DOMAIN item THEN item[field] ELSE default

\* lines 96-106: a Decimal becomes a float, an int or a float (bool is an int
\* in Python) is kept, anything else becomes 0; in hundredths
Number(v) ==
    IF v.t = "Decimal" THEN v.n
    ELSE IF v.t \in {"int", "float"} THEN v.n
    ELSE IF v.t = "bool" THEN (IF v.b THEN 100 ELSE 0)
    ELSE 0

\* bool(x) of a scanned value
Truthy(v) ==
    IF v.t = "bool" THEN v.b
    ELSE IF v.t \in {"Decimal", "int", "float"} THEN v.n # 0
    ELSE IF v.t = "str" THEN v.s # ""
    ELSE FALSE

\* num / den rounded to the nearest integer, ties to even, as round() does
RoundHalfEven(num, den) ==
    LET q == num \div den
        r == num % den
    IN  IF 2 * r > den \/ (2 * r = den /\ q % 2 = 1) THEN q + 1 ELSE q

\* kilobytes of 1000 bytes
file_size_kb_per_1000(file_size) == RoundHalfEven(file_size, 1000)

\* line 110: round(file_size / 1024.0, 2), both sides in hundredths
file_size_kb(file_size) == RoundHalfEven(file_size, 1024)

\* line 89: the columns of the empty table
EmptyColumns ==
    <<"filename", "file_size_kb", "processing_latency_ms", "cold_start", "simulated_class">>

\* lines 108-114: the keys of a record, in the order they are inserted
RecordColumns ==
    <<"filename", "file_size_kb", "processing_latency_ms", "cold_start", "simulated_class">>

\* lines 96-114: the record made of one item
ProjectItem(item) ==
    LET file_size == Number(Get(item, "file_size", Val("int", 0, "", FALSE)))
        processing_latency == Number(Get(item, "processing_latency", Val("int", 0, "", FALSE)))
    IN  [ filename |-> Get(item, "filename", Val("str", 0, <<>>, FALSE)),
          file_size_kb |-> file_size_kb(file_size),
          processing_latency_ms |-> processing_latency,
          cold_start |-> Truthy(Get(item, "is_cold_start", Val("bool", 0, "", FALSE))),
          simulated_class |-> Get(item, "simulated_classification",
                                  Val("str", 0, "Unknown", FALSE)) ]

\* a loop that skips the items that lack a field
records_of_complete_items(items) ==
    LET complete(item) ==
            {"filename", "file_size", "processing_latency", "is_cold_start",
             "simulated_classification"} \subseteq DOMAIN item
        kept == SelectSeq(items, complete)
    IN  [k \in 1..Len(kept) |-> ProjectItem(kept[k])]

\* lines 93-115: one record appended for each item, in order
records_of(items) == [k \in 1..Len(items) |-> ProjectItem(items[k])]

\* lines 85-118
transform_to_dataframe(items) ==
    IF Len(items) = 0
    THEN [columns |-> EmptyColumns, rows |-> <<>>]
    ELSE [columns |-> RecordColumns, rows |-> records_of(items)]

\* an item as the handler writes it and a scan returns it: numbers come back
\* as Decimal
ScannedRow(filename, file_size, processing_latency, is_cold_start, classification) ==
    [ filename |-> Val("str", 0, filename, FALSE),
      file_size |-> Val("Decimal", 100 * file_size, "", FALSE),
      processing_latency |-> Val("Decimal", processing_latency, "", FALSE),
      is_cold_start |-> Val("bool", 0, "", is_cold_start),
      simulated_classification |-> Val("str", 0, classification, FALSE),
      width |-> Val("Decimal", 6400, "", FALSE),
      height |-> Val("Decimal", 4800, "", FALSE),
      format |-> Val("str", 0, "PNG", FALSE) ]

Without(item, field) == [f \in DOMAIN item \ {field} |-> item[f]]

RowA == ScannedRow(<<97>>, 102400, 21758, TRUE, "Photo")
RowMF == ScannedRow(<<109, 32, 102>>, 5 * 1048576 + 128, 110002, FALSE, "Receipt")

\* the items transform_to_dataframe is applied to: rows as the handler writes
\* them, an item without any field, rows lacking one field, and rows whose
\* fields hold a string, a NULL, an int, a float or a bool
ScannedItems ==
    << RowA,
       RowMF,
       [f \in {} |-> Val("NULL", 0, "", FALSE)],
       Without(RowA, "filename"),
       Without(RowA, "file_size"),
       Without(RowMF, "processing_latency"),
       Without(RowA, "is_cold_start"),
       Without(RowMF, "simulated_classification"),
       [RowA EXCEPT !.file_size = Val("str", 0, "big", FALSE)],
       [RowMF EXCEPT !.processing_latency = Val("str", 0, "slow", FALSE)],
       [RowA EXCEPT !.file_size = Val("NULL", 0, "", FALSE),
                    !.processing_latency = Val("NULL", 0, "", FALSE)],
       [RowMF EXCEPT !.file_size = Val("int", 204928 * 100, "", FALSE),
                     !.processing_latency = Val("float", 30050, "", FALSE)],
       [RowA EXCEPT !.file_size = Val("bool", 0, "", TRUE),
                    !.processing_latency = Val("bool", 0, "", TRUE)],
       [RowMF EXCEPT !.is_cold_start = Val("str", 0, "false", FALSE)],
       [RowA EXCEPT !.is_cold_start = Val("Decimal", 0, "", FALSE)] >>

\* transform_to_dataframe applied to a list of items, once
Transform(items) ==
    /\ ~xf.evaluated
    /\ xf' = [evaluated |-> TRUE, items |-> items, df |-> transform_to_dataframe(items)]
    /\ UNCHANGED <<handler_vars, instance, parked, lm, nm, av, sc, rp, up, rv>>

NextTransform ==
    \E ix \in SeqsUpTo(1..Len(ScannedItems), MaxItems) :
        Transform([k \in 1..Len(ix) |-> ScannedItems[ix[k]]])

SpecTransform == Init /\ [][NextTransform]_vars

FiveColumns ==
    <<"filename", "file_size_kb", "processing_latency_ms", "cold_start", "simulated_class">>

\* the field of the item holds a number
HasNumber(item, field) ==
    field \in DOMAIN item /\ item[field].t \in {"Decimal", "int", "float"}

\* kb, in hundredths, is size / 1024 rounded to two decimals, size in
\* hundredths of a byte
IsRoundedKb(kb, size) == 1024 * kb - size <= 512 /\ size - 1024 * kb <= 512

ScanOrders(t) ==
    {order \in [1..Cardinality(DOMAIN t) -> DOMAIN t] :
        \A j, k \in DOMAIN order : order[j] = order[k] => j = k}

\* what a scan returns for a row the handler has put: table.put_item stores
\* int and Decimal as numbers, and the resource API reads numbers as Decimal
ScannedItem(row) ==
    [ filename |-> Val("str", 0, row.filename, FALSE),
      file_size |-> Val("Decimal", 100 * row.file_size, "", FALSE),
      processing_latency |-> Val("Decimal", row.processing_latency, "", FALSE),
      is_cold_start |-> Val("bool", 0, "", row.is_cold_start),
      simulated_classification |-> Val("str", 0, row.simulated_classification, FALSE),
      width |-> Val("Decimal", 100 * row.width, "", FALSE),
      height |-> Val("Decimal", 100 * row.height, "", FALSE),
      format |-> Val("str", 0, row.format, FALSE),
      timestamp |-> Val("Decimal", 100 * row.timestamp, "", FALSE),
      simulated_latency |-> Val("Decimal", row.simulated_latency, "", FALSE) ]

\* extract_metrics.py main, lines 168-171, run while the handler is idle: the
\* rows of the table are scanned and transformed
Extract ==
    /\ pc = "idle"
    /\ \E order \in ScanOrders(table) :
          Transform([k \in DOMAIN order |-> ScannedItem(table[order[k]])])

\* calls of the handler, then one extraction
NextPipeline ==
    \/ ~xf.evaluated /\ Next
    \/ Extract

SpecPipeline == Init /\ [][NextPipeline]_vars

\* C14: every row the handler has written comes back through
\* transform_to_dataframe as one output row with the same filename,
\* cold_start equal to is_cold_start, simulated_class equal to
\* simulated_classification and file_size_kb equal to file_size / 1024
\* rounded to two decimals.
C14_RowsReadBack ==
    xf.evaluated =>
        /\ Len(xf.df.rows) = Cardinality(DOMAIN table)
        /\ \A f \in DOMAIN table :
              LET found == {k \in DOMAIN xf.df.rows :
                               /\ xf.df.rows[k].filename.t = "str"
                               /\ xf.df.rows[k].filename.s = f}
              IN  /\ Cardinality(found) = 1
                  /\ \A k \in found :
                        /\ xf.df.rows[k].cold_start = table[f].is_cold_start
                        /\ xf.df.rows[k].simulated_class.t = "str"
                        /\ xf.df.rows[k].simulated_class.s = table[f].simulated_classification
                        /\ IsRoundedKb(xf.df.rows[k].file_size_kb, 100 * table[f].file_size)

\* two rows read back, the cold one of 100 KiB and the one of 5 MiB and 128
\* bytes, which is 5120.125 KB and reads 5120.12
C14_Witness ==
    /\ xf.evaluated
    /\ Len(xf.df.rows) = 2
    /\ xf.df.rows[1].filename.s = <<109, 32, 102>>
    /\ xf.df.rows[1].file_size_kb = 512012
    /\ xf.df.rows[2].filename.s = <<97>>
    /\ xf.df.rows[2].file_size_kb = 10000
    /\ xf.df.rows[2].cold_start

\* --------------------------- the resource name of a tool: --table, --bucket

DEFAULT_TABLE == "order-processing-part2-image-results"
DEFAULT_BUCKET == "order-processing-part2-image-processing"

\* how the run of "terraform output -json <name>" (tflocal for --env local)
\* can end: subprocess.run raises (command not found, timeout), or the
\* command exits with a return code and its standard output, which is not
\* JSON, or a JSON string, null or object, the object with or without a
\* member "value"
TerraformOutcome(kind, returncode, json, has_value, value) ==
    [kind |-> kind, returncode |-> returncode, json |-> json,
     has_value |-> has_value, value |-> value]

TerraformOutcomes ==
    { TerraformOutcome("raises", 0, "invalid", FALSE, ""),
      TerraformOutcome("exit", 1, "invalid", FALSE, ""),
      TerraformOutcome("exit", 1, "string", FALSE, "tf-name"),
      TerraformOutcome("exit", 0, "invalid", FALSE, ""),
      TerraformOutcome("exit", 0, "string", FALSE, "tf-name"),
      TerraformOutcome("exit", 0, "null", FALSE, ""),
      TerraformOutcome("exit", 0, "object", FALSE, ""),
      TerraformOutcome("exit", 0, "object", TRUE, "tf-name") }

\* the try block of get_*_name_from_terraform: json.loads raises on invalid
\* JSON, output.get raises AttributeError on a str or on None, and every
\* Exception ends in the default
NameFromTerraform(outcome, default) ==
    IF outcome.kind = "raises" THEN default
    ELSE IF outcome.returncode # 0 THEN default
    ELSE IF outcome.json = "invalid" THEN default
    ELSE IF outcome.json \in {"string", "null"} THEN default
    ELSE IF outcome.has_value THEN outcome.value
    ELSE default

\* extract_metrics.py, lines 19-40
get_table_name_from_terraform(outcome) == NameFromTerraform(outcome, DEFAULT_TABLE)

\* load_generator.py, lines 21-42
get_bucket_name_from_terraform(outcome) == NameFromTerraform(outcome, DEFAULT_BUCKET)

\* the values of --table / --bucket: not given, given empty, given
Overrides == {None, "", "cli-name"}

Tools == {"extract_metrics", "load_generator"}

\* main: "if args.table:" / "if args.bucket:", else the terraform output
ResolveName(tool, override, outcome) ==
    /\ ~nm.evaluated
    /\ nm' = [ evaluated |-> TRUE,
               tool |-> tool,
               override |-> override,
               outcome |-> outcome,
               aborted |-> FALSE,
               name |-> IF override \notin {None, ""} THEN override
                        ELSE IF tool = "extract_metrics"
                             THEN get_table_name_from_terraform(outcome)
                             ELSE get_bucket_name_from_terraform(outcome) ]
    /\ UNCHANGED <<handler_vars, instance, parked, lm, xf, av, sc, rp, up, rv>>

NextNames ==
    \E tool \in Tools, override \in Overrides, outcome \in TerraformOutcomes :
        ResolveName(tool, override, outcome)

SpecNames == Init /\ [][NextNames]_vars

\* the command ran and printed the value of the output: the JSON string
\* that "output -json <name>" prints, or an object with the member "value"
Readable(outcome) ==
    /\ outcome.kind = "exit"
    /\ outcome.returncode = 0
    /\ outcome.json = "string" \/ (outcome.json = "object" /\ outcome.has_value)

DefaultOf(tool) == IF tool = "extract_metrics" THEN DEFAULT_TABLE ELSE DEFAULT_BUCKET

\* C16: in the metrics extractor and the load generator the name used is the
\* --table / --bucket value whenever one is given; otherwise the value of
\* the infrastructure output whenever it can be read; otherwise, on any
\* failure to read it, the built-in default; and the tool never aborts
\* while settling the name.
C16_NamePrecedence ==
    nm.evaluated =>
        /\ ~nm.aborted
        /\ nm.override # None => nm.name = nm.override
        /\ (nm.override = None /\ Readable(nm.outcome)) => nm.name = nm.outcome.value
        /\ (nm.override = None /\ ~Readable(nm.outcome)) => nm.name = DefaultOf(nm.tool)

\* ------------------------- add_realistic_variation.py: add_realistic_variation

Max(a, b) == IF a >= b THEN a ELSE b

\* a clamp that forgets the lower limit
Clamp_upper_only(lo, hi, x) == Min(hi, x)

\* max(lo, min(hi, x)), lines 35, 37, 42, 46
Clamp(lo, hi, x) == Max(lo, Min(hi, x))

\* values of np.random.normal, in thousandths of a millisecond: below, at,
\* between and above every limit of the clamps
NormalDraws ==
    { -50000, 0, 4999, 5000, 5001, 9999, 10000, 12345, 19999, 20000, 20001,
      49999, 50000, 50001, 125000, 199999, 200000, 200001, 999000 }

\* processing_latency_ms of the rows of the CSV file, in hundredths
BaseLatencies == {21758, 200000}

\* lines 31-46: the overhead of one row, from the draws made for it
Overhead(is_aws, is_cold, d1, d2) ==
    IF is_aws
    THEN IF is_cold
         THEN LET cold_start_overhead == Clamp(50 * 1000, 200 * 1000, d1)
                  network_overhead == Clamp(10 * 1000, 50 * 1000, d2)
              IN  [ cold_start_overhead |-> cold_start_overhead,
                    network_overhead |-> network_overhead,
                    total_overhead |-> cold_start_overhead + network_overhead ]
         ELSE [ cold_start_overhead |-> 0, network_overhead |-> 0,
                total_overhead |-> Clamp(10 * 1000, 50 * 1000, d1) ]
    ELSE [ cold_start_overhead |-> 0, network_overhead |-> 0,
           total_overhead |-> Clamp(5 * 1000, 20 * 1000, d1) ]

\* lines 27-49 for one row: the base latency in hundredths, the draws and the
\* overhead in thousandths, the new latency rounded to hundredths
Vary(is_aws, is_cold, base, d1, d2) ==
    /\ ~av.evaluated
    /\ LET o == Overhead(is_aws, is_cold, d1, d2)
       IN  av' = [ evaluated |-> TRUE,
                   is_aws |-> is_aws,
                   is_cold |-> is_cold,
                   base_latency |-> base,
                   draws |-> IF is_aws /\ is_cold THEN <<d1, d2>> ELSE <<d1>>,
                   cold_start_overhead |-> o.cold_start_overhead,
                   network_overhead |-> o.network_overhead,
                   total_overhead |-> o.total_overhead,
                   processing_latency_ms |->
                       RoundHalfEven(10 * base + o.total_overhead, 10) ]
    /\ UNCHANGED <<handler_vars, instance, parked, lm, xf, nm, sc, rp, up, rv>>

NextVariation ==
    \E is_aws \in BOOLEAN, is_cold \in BOOLEAN, base \in BaseLatencies,
       d1 \in NormalDraws, d2 \in NormalDraws :
        Vary(is_aws, is_cold, base, d1, d2)

SpecVariation == Init /\ [][NextVariation]_vars

\* C17: whatever the draws, the overhead added to a row is within the
\* limits of its scenario: 60 to 250 ms for a cold row in the cloud scenario
\* (a draw clamped to 50..200 plus a draw clamped to 10..50), 10 to 50 ms for
\* a warm row in the cloud scenario, 5 to 20 ms for any row in the local
\* scenario.
C17_OverheadWithinBounds ==
    av.evaluated =>
        /\ (av.is_aws /\ av.is_cold) =>
              /\ av.cold_start_overhead >= 50000 /\ av.cold_start_overhead <= 200000
              /\ av.network_overhead >= 10000 /\ av.network_overhead <= 50000
              /\ av.total_overhead = av.cold_start_overhead + av.network_overhead
              /\ av.total_overhead >= 60000 /\ av.total_overhead <= 250000
        /\ (av.is_aws /\ ~av.is_cold) =>
              av.total_overhead >= 10000 /\ av.total_overhead <= 50000
        /\ ~av.is_aws =>
              av.total_overhead >= 5000 /\ av.total_overhead <= 20000
        /\ 10 * av.processing_latency_ms - 10 * av.base_latency - av.total_overhead <= 5
        /\ 10 * av.base_latency + av.total_overhead - 10 * av.processing_latency_ms <= 5

\* a cold row in the cloud scenario whose two draws are far out on opposite
\* sides: 200 ms and 10 ms, 210 ms in all
C17_Witness ==
    /\ av.evaluated
    /\ av.is_aws /\ av.is_cold
    /\ av.draws = <<999000, -50000>>
    /\ av.total_overhead = 210000

\* ---------------------------------- extract_metrics.py: scan_dynamodb_table

\* pages the store cuts a full scan into
MaxPages == 3

\* items on one page: a page may be empty
PageSizes == {0, 1, 2}

\* the pages of a table, from the number of items on each: item i of page j
\* is 10 * j + i
PagesOf(sizes) == [j \in 1..Len(sizes) |-> [i \in 1..sizes[j] |-> 10 * j + i]]

\* table.scan(**scan_kwargs) as the store answers it: the page after
\* ExclusiveStartKey (the first page when start is 0, no key given), with
\* LastEvaluatedKey j on page j when more pages follow and none (0) on the
\* last page
StoreScan(pages, start) ==
    LET j == start + 1
    IN  [ page |-> j,
          Items |-> pages[j],
          LastEvaluatedKey |-> IF j < Len(pages) THEN j ELSE 0 ]

\* a loop that stops after the first response
more_pages_never(last_evaluated_key) == FALSE

\* lines 78-79: the loop goes on while the response carried a key
more_pages(last_evaluated_key) == last_evaluated_key # 0

\* lines 65-66: scan_dynamodb_table is called on a table of some pages
ScanStart(sizes) ==
    /\ sc.pc = "idle"
    /\ sc' = [ pc |-> "scan",
               pages |-> PagesOf(sizes),
               items |-> <<>>,
               last_evaluated_key |-> 0,
               requests |-> <<>>,
               responses |-> <<>> ]
    /\ UNCHANGED <<handler_vars, instance, parked, lm, xf, nm, av, rp, up, rv>>

\* lines 69-82: one turn of the loop: the scan with the key of the previous
\* response if there was one, the items appended, the key kept, and the
\* return when the response carried no key
ScanPage ==
    /\ sc.pc = "scan"
    /\ LET ExclusiveStartKey == IF sc.last_evaluated_key # 0 THEN sc.last_evaluated_key ELSE 0
           response == StoreScan(sc.pages, ExclusiveStartKey)
       IN  sc' = [sc EXCEPT
                    !.requests = Append(@, ExclusiveStartKey),
                    !.responses = Append(@, response),
                    !.items = @ \o response.Items,
                    !.last_evaluated_key = response.LastEvaluatedKey,
                    !.pc = IF more_pages(response.LastEvaluatedKey) THEN "scan" ELSE "done"]
    /\ UNCHANGED <<handler_vars, instance, parked, lm, xf, nm, av, rp, up, rv>>

NextScan ==
    \/ \E sizes \in SeqsUpTo(PageSizes, MaxPages) : Len(sizes) >= 1 /\ ScanStart(sizes)
    \/ ScanPage

\* a call of scan_dynamodb_table that has begun keeps running
SpecScan == Init /\ [][NextScan]_vars /\ WF_vars(ScanPage)

RECURSIVE Flatten(_)
Flatten(pages) == IF Len(pages) = 0 THEN <<>> ELSE Head(pages) \o Flatten(Tail(pages))

\* C18: scan_dynamodb_table returns the items of all pages of the table in
\* page order: the first scan carries no ExclusiveStartKey and each later
\* one the LastEvaluatedKey of the response before it, every page is asked
\* for once and none is skipped, and the loop ends exactly when a response
\* carries no LastEvaluatedKey, which it does for any finite number of
\* pages.
C18_ScanReturnsAllPages ==
    /\ [](sc.pc # "idle" =>
            /\ Len(sc.requests) = Len(sc.responses)
            /\ Len(sc.requests) <= Len(sc.pages)
            /\ \A k \in DOMAIN sc.requests :
                  /\ sc.requests[k] = (IF k = 1 THEN 0 ELSE sc.responses[k - 1].LastEvaluatedKey)
                  /\ sc.responses[k].page = k
                  /\ k < Len(sc.responses) => sc.responses[k].LastEvaluatedKey # 0
            /\ sc.items = Flatten(SubSeq(sc.pages, 1, Len(sc.responses)))
            /\ sc.pc = "done" <=>
                  (Len(sc.responses) >= 1
                     /\ sc.responses[Len(sc.responses)].LastEvaluatedKey = 0)
            /\ sc.pc = "done" =>
                  /\ Len(sc.responses) = Len(sc.pages)
                  /\ sc.items = Flatten(sc.pages))
    /\ (sc.pc = "scan") ~> (sc.pc = "done")

\* three pages scanned, the second one empty: three requests, all items
C18_Witness ==
    /\ sc.pc = "done"
    /\ Len(sc.pages) = 3
    /\ sc.requests = <<0, 1, 2>>
    /\ sc.items = <<11, 12, 31>>

\* -------------------------- trigger_lambda.py: trigger_lambda_for_objects

\* what list_objects_v2 returns for the bucket, keys in ascending order:
\* "a", "m f", "m+f";  "m%20f";  "a%", "m f";  "%4", "%41", "A"
ReplayListings ==
    { << <<97>>, <<109, 32, 102>>, <<109, 43, 102>> >>,
      << <<109, 37, 50, 48, 102>> >>,
      << <<97, 37>>, <<109, 32, 102>> >>,
      << <<37, 52>>, <<37, 52, 49>>, <<65>> >> }

\* the bucket whose listing is l: every object a small image
BucketOf(l) == [k \in {l[j] : j \in DOMAIN l} |-> ImageObject(102400)]

\* lines 26-32: the keys of all pages, in order
ListObjects(b) == CHOOSE l \in ReplayListings : {l[j] : j \in DOMAIN l} = DOMAIN b

RECURSIVE quote(_)
\* urllib.parse.quote of a key made of letters, digits, space, "%" and "+"
quote(k) ==
    IF Len(k) = 0 THEN <<>>
    ELSE (IF Head(k) = 32 THEN <<37, 50, 48>>
          ELSE IF Head(k) = 37 THEN <<37, 50, 53>>
          ELSE IF Head(k) = 43 THEN <<37, 50, 66>>
          ELSE <<Head(k)>>) \o quote(Tail(k))

\* the key percent-encoded, as a bucket notification spells it
EventKey_quoted(obj_key) == quote(obj_key)

\* line 55: "key": obj_key
EventKey(obj_key) == obj_key

\* lines 45-60: the event for one object
ReplayEvent(bucket_name, obj_key) ==
    [Records |-> << [bucket |-> bucket_name, key |-> EventKey(obj_key)] >>]

\* an except clause that gives up on the remaining objects
AfterException_stops(r, obj_key) ==
    [r EXCEPT !.error_count = @ + 1,
              !.attempts = Append(@, [key |-> obj_key, outcome |-> "exception"]),
              !.pc = "done"]

\* lines 83-86: the exception is counted and the loop goes on
AfterException(r, obj_key) ==
    [r EXCEPT !.error_count = @ + 1,
              !.attempts = Append(@, [key |-> obj_key, outcome |-> "exception"]),
              !.i = @ + 1,
              !.pc = "loop"]

\* a fresh execution environment and a bucket of one of the listings
InitReplay ==
    /\ is_warm = FALSE
    /\ bucket \in {BucketOf(l) : l \in ReplayListings}
    /\ table = <<>>
    /\ invocations = 0
    /\ pc = "idle"
    /\ event = NoRecordsEvent
    /\ frame = NoFrame
    /\ calls = <<>>
    /\ result = Pending
    /\ ToolsInit
    /\ instance = 1
    /\ parked = <<>>

\* lines 24-39: list the objects, counters at 0
ReplayList ==
    /\ rp.pc = "idle"
    /\ rp' = [ pc |-> "loop",
               objects |-> ListObjects(bucket),
               i |-> 1,
               success_count |-> 0,
               error_count |-> 0,
               attempts |-> <<>>,
               event |-> NoRecordsEvent,
               calls_before |-> 0 ]
    /\ UNCHANGED <<handler_vars, instance, parked, lm, xf, nm, av, sc, up, rv>>

\* lines 42-67: the event of the next object is sent with lambda_client.invoke,
\* or the call raises before the function is run
ReplaySend ==
    /\ rp.pc = "loop"
    /\ rp.i <= Len(rp.objects)
    /\ LET obj_key == rp.objects[rp.i]
       IN  \/ rp' = AfterException(rp, obj_key)
           \/ rp' = [rp EXCEPT !.pc = "invoking",
                               !.event = ReplayEvent(BucketName, obj_key),
                               !.calls_before = invocations]
    /\ UNCHANGED <<handler_vars, instance, parked, lm, xf, nm, av, sc, up, rv>>

\* the platform runs the function on the event sent (RequestResponse)
ReplayInvoke ==
    /\ rp.pc = "invoking"
    /\ invocations = rp.calls_before
    /\ Invoke(rp.event)

\* lines 69-86: the response has come, with FunctionError when the function
\* raised, or reading it raises (timeout, connection lost)
ReplayReceive ==
    /\ rp.pc = "invoking"
    /\ invocations = rp.calls_before + 1
    /\ pc = "idle"
    /\ LET obj_key == rp.objects[rp.i]
       IN  \/ rp' = AfterException(rp, obj_key)
           \/ /\ result.kind # "raised"
              /\ rp' = [rp EXCEPT
                           !.success_count = @ + 1,
                           !.attempts = Append(@, [key |-> obj_key, outcome |-> "success"]),
                           !.i = @ + 1,
                           !.pc = "loop"]
           \/ /\ result.kind = "raised"
              /\ rp' = [rp EXCEPT
                           !.error_count = @ + 1,
                           !.attempts = Append(@, [key |-> obj_key, outcome |-> "FunctionError"]),
                           !.i = @ + 1,
                           !.pc = "loop"]
    /\ UNCHANGED <<handler_vars, instance, parked, lm, xf, nm, av, sc, up, rv>>

\* lines 88-90: every object has been gone through
ReplayEnd ==
    /\ rp.pc = "loop"
    /\ rp.i > Len(rp.objects)
    /\ rp' = [rp EXCEPT !.pc = "done"]
    /\ UNCHANGED <<handler_vars, instance, parked, lm, xf, nm, av, sc, up, rv>>

NextReplay ==
    \/ ReplayList
    \/ ReplaySend
    \/ ReplayInvoke
    \/ ForRecord
    \/ GetObject
    \/ ImageOpen
    \/ Latency
    \/ Sleep
    \/ BuildRecord
    \/ PutItem
    \/ ReturnResponse
    \/ ReplayReceive
    \/ ReplayEnd

SpecReplay == InitReplay /\ [][NextReplay]_vars

\* the key holds a "+" or a percent-escape sequence ("%" and two hex digits)
HasPlusOrEscape(k) ==
    \E j \in DOMAIN k :
        \/ k[j] = 43
        \/ /\ k[j] = 37
           /\ j + 2 <= Len(k)
           /\ k[j + 1] \in HexDigits
           /\ k[j + 2] \in HexDigits

\* the function is running, or has run, on the event of object rp.i
ReplayedCall == rp.pc = "invoking" /\ invocations = rp.calls_before + 1

\* C21: the replayer puts each listed key into its event as it is, not
\* percent-encoded, and the handler decodes the key it receives; so the key
\* the handler fetches and stores is the listed key exactly when the listed
\* key holds no "+" and no percent-escape sequence, and another key
\* otherwise.
C21_ReplayedKeyDecoded ==
    ReplayedCall =>
        LET listed == rp.objects[rp.i]
        IN  /\ Len(Records(event)) = 1
            /\ Records(event)[1].key = listed
            /\ \A j \in DOMAIN calls :
                  /\ calls[j].op = "get_object" =>
                        /\ calls[j].Key = unquote_plus(listed)
                        /\ calls[j].Key = listed <=> ~HasPlusOrEscape(listed)
                  /\ calls[j].op = "put_item" =>
                        /\ calls[j].Item.filename = unquote_plus(listed)
                        /\ calls[j].Item.filename = listed <=> ~HasPlusOrEscape(listed)

\* the listed key "m+f" has been fetched and stored as "m f": the row of the
\* object "m f", not of "m+f"
C21_Witness ==
    /\ ReplayedCall
    /\ rp.objects[rp.i] = <<109, 43, 102>>
    /\ pc = "idle"
    /\ result.kind = "returned"
    /\ result.body.filename = <<109, 32, 102>>
    /\ \E j \in Done("put_item") : calls[j].Item.filename = <<109, 32, 102>>

\* C22: the handler writes each row with put_item under the decoded key and
\* never reads the table; a key processed again (a replay, or two listed keys
\* that decode to the same name) has its earlier row replaced, so the table
\* holds one row per filename at most and can hold fewer rows than records
\* were processed successfully.
C22_PutReplacesRow ==
    /\ [](\A j \in DOMAIN calls : calls[j].op \in HandlerOps)
    /\ [](\A f \in DOMAIN table : table[f].filename = f)
    /\ [](Cardinality(DOMAIN table) <= invocations)
    /\ [](rp.pc = "done" => Cardinality(DOMAIN table) <= Len(rp.objects))
    /\ [][table' # table =>
            /\ pc = "put_item"
            /\ frame.object_key = unquote_plus(Records(event)[1].key)
            /\ DOMAIN table' = DOMAIN table \cup {frame.object_key}
            /\ table'[frame.object_key] = frame.record_data
            /\ Cardinality(DOMAIN table') =
                  Cardinality(DOMAIN table)
                    + (IF frame.object_key \in DOMAIN table THEN 0 ELSE 1)]_vars
    /\ [][(pc = "put_item" /\ pc' = "return") =>
            table'[frame.object_key] = frame.record_data]_vars

\* "a", "m f" and "m+f" all processed with success: three records, two rows,
\* the row of "m f" the warm one written for "m+f"
C22_Witness ==
    /\ rp.pc = "done"
    /\ rp.success_count = 3
    /\ rp.objects[3] = <<109, 43, 102>>
    /\ Cardinality(DOMAIN table) = 2
    /\ table[<<109, 32, 102>>] = calls[Len(calls)].Item

\* the attempts that ended with the outcome o
AttemptsWith(o) == {k \in DOMAIN rp.attempts : rp.attempts[k].outcome = o}

\* C23: trigger_lambda_for_objects invokes the function once for each listed
\* object, in order, with an event of one record naming that object; an
\* invocation that fails or raises does not stop the later ones; and at the
\* end success_count + error_count is the number of listed objects, every
\* object counted once.
C23_OneInvocationPerObject ==
    /\ [](rp.pc # "idle" =>
            /\ Len(rp.attempts) = rp.i - 1
            /\ Len(rp.attempts) <= Len(rp.objects)
            /\ \A k \in DOMAIN rp.attempts : rp.attempts[k].key = rp.objects[k]
            /\ rp.success_count = Cardinality(AttemptsWith("success"))
            /\ rp.error_count =
                  Cardinality(AttemptsWith("FunctionError"))
                    + Cardinality(AttemptsWith("exception"))
            /\ rp.success_count + rp.error_count = Len(rp.attempts)
            /\ invocations <= Len(rp.attempts) + (IF rp.pc = "invoking" THEN 1 ELSE 0)
            /\ rp.pc = "done" =>
                  /\ Len(rp.attempts) = Len(rp.objects)
                  /\ rp.success_count + rp.error_count = Len(rp.objects))
    /\ [][invocations' # invocations =>
            /\ rp.pc = "invoking"
            /\ rp.calls_before = invocations
            /\ rp.event = event'
            /\ invocations' = invocations + 1
            /\ Len(Records(event')) = 1
            /\ Records(event')[1].key = rp.objects[rp.i]
            /\ Records(event')[1].bucket = BucketName]_vars
    /\ [][(rp.pc = "invoking" /\ rp'.pc = "invoking") => rp' = rp]_vars

\* three objects: the first invocation raised in the function, the second
\* could not be made, the third succeeded
C23_Witness ==
    /\ rp.pc = "done"
    /\ Len(rp.objects) = 3
    /\ rp.attempts[1].outcome = "FunctionError"
    /\ rp.attempts[2].outcome = "exception"
    /\ rp.attempts[3].outcome = "success"
    /\ rp.success_count = 1
    /\ rp.error_count = 2
    /\ invocations = 2

\* ------------------------------------------ load_generator.py: upload_images

\* times generate_image fails after it has written its file
MaxLeaks == 1

\* lines 112-116: images_to_generate
ImagesToGenerate ==
    << [count |-> 20, size_kb |-> 100, category |-> "small"],
       [count |-> 20, size_kb |-> 1000, category |-> "medium"],
       [count |-> 10, size_kb |-> 5000, category |-> "large"] >>

\* line 118
TotalImages ==
    ImagesToGenerate[1].count + ImagesToGenerate[2].count + ImagesToGenerate[3].count

\* lines 125-127: the image the nested loops reach at their n-th turn, named
\* load_test_<category>_<number, three digits>.png
PlannedImage(n) ==
    LET c1 == ImagesToGenerate[1].count
        c2 == ImagesToGenerate[2].count
        g == IF n <= c1 THEN 1 ELSE IF n <= c1 + c2 THEN 2 ELSE 3
        i == IF g = 1 THEN n - 1 ELSE IF g = 2 THEN n - c1 - 1 ELSE n - c1 - c2 - 1
    IN  [ category |-> ImagesToGenerate[g].category,
          number |-> i + 1,
          size_kb |-> ImagesToGenerate[g].size_kb ]

\* how one turn of the loop can go: generate_image raises before /tmp/<name>
\* exists; generate_image raises after img.save has written /tmp/<name>
\* (lines 72-88); upload_file raises; both succeed
UploadOutcomes == {"generate_failed", "generate_failed_file_written", "upload_failed", "uploaded"}

\* lines 95-109 and 118-119: the bucket is checked; the function returns at
\* once when head_bucket raises
UploadStart(bucket_ok) ==
    /\ up.pc = "idle"
    /\ up' = [ pc |-> IF bucket_ok THEN "loop" ELSE "returned",
               bucket_ok |-> bucket_ok,
               n |-> 1,
               uploaded |-> 0,
               attempted |-> <<>>,
               stored |-> 0,
               tmp |-> {} ]
    /\ UNCHANGED <<handler_vars, instance, parked, lm, xf, nm, av, sc, rp, rv>>

\* lines 127-151: one turn: temp_path is None until generate_image returns,
\* and the finally clause removes the file only when temp_path is set
UploadImage(outcome) ==
    /\ up.pc = "loop"
    /\ up.n <= TotalImages
    /\ outcome = "generate_failed_file_written" => Cardinality(up.tmp) < MaxLeaks
    /\ LET image == PlannedImage(up.n)
           filename == [category |-> image.category, number |-> image.number]
           temp_path == IF outcome \in {"upload_failed", "uploaded"} THEN filename ELSE None
           written == IF outcome = "generate_failed" THEN up.tmp ELSE up.tmp \cup {filename}
       IN  up' = [up EXCEPT
                    !.attempted = Append(@, filename),
                    !.stored = IF outcome = "uploaded" THEN @ + 1 ELSE @,
                    !.uploaded = IF outcome = "uploaded" THEN @ + 1 ELSE @,
                    !.tmp = IF outcome \in {"upload_failed", "uploaded"}
                            THEN written \ {filename} ELSE written,
                    !.n = @ + 1]
    /\ UNCHANGED <<handler_vars, instance, parked, lm, xf, nm, av, sc, rp, rv>>

\* lines 153-155: the loops are over
UploadEnd ==
    /\ up.pc = "loop"
    /\ up.n > TotalImages
    /\ up' = [up EXCEPT !.pc = "done"]
    /\ UNCHANGED <<handler_vars, instance, parked, lm, xf, nm, av, sc, rp, rv>>

NextUpload ==
    \/ \E bucket_ok \in BOOLEAN : UploadStart(bucket_ok)
    \/ \E outcome \in UploadOutcomes : UploadImage(outcome)
    \/ UploadEnd

SpecUpload == Init /\ [][NextUpload]_vars

\* the attempts made for images of the category
AttemptedOf(category) ==
    {k \in DOMAIN up.attempted : up.attempted[k].category = category}

\* C24: upload_images attempts no upload when the bucket check fails;
\* otherwise it attempts each of the 50 planned images (20 small, 20 medium,
\* 10 large, all names different) once, a failure does not stop the later
\* images, uploaded ends as the number of images generated and uploaded with
\* success, between 0 and 50, and after each attempt, successful or not, the
\* temporary file of the image is gone.
C24_UploadPlanCarriedOut ==
    up.pc # "idle" =>
        /\ ~up.bucket_ok => (up.pc = "returned" /\ up.attempted = <<>> /\ up.stored = 0)
        /\ \A j, k \in DOMAIN up.attempted : up.attempted[j] = up.attempted[k] => j = k
        /\ up.uploaded = up.stored
        /\ up.uploaded >= 0 /\ up.uploaded <= Len(up.attempted)
        /\ Len(up.attempted) <= 50
        /\ up.pc = "done" =>
              /\ Len(up.attempted) = 50
              /\ Cardinality(AttemptedOf("small")) = 20
              /\ Cardinality(AttemptedOf("medium")) = 20
              /\ Cardinality(AttemptedOf("large")) = 10
        /\ up.tmp = {}

\* ------------------------------------------ add_realistic_variation.py: main

\* runs of the tool on the same two files
MaxRuns == 2

\* values np.random.normal hands out, one after the other, in one run
StreamLen == 5

\* values of np.random.normal for the rows of the files, in thousandths of a
\* millisecond: below the limits, between them with a half to round, above
RunDraws == {4999, 12345, 125000}

\* line 12: the seed is set when the module is loaded, so every run of the
\* tool is handed the same values in the same order
DrawStreams == [1..StreamLen -> RunDraws]

\* a row of a metrics file: kb and latency in hundredths
MetricsRow(filename, latency, cold) ==
    [ filename |-> filename,
      file_size_kb |-> 10000,
      processing_latency_ms |-> latency,
      cold_start |-> cold,
      simulated_class |-> "Unknown" ]

\* data/metrics_aws.csv and data/metrics_local.csv as the tool finds them
MetricsFiles ==
    { [ aws |-> <<MetricsRow("a.png", 200000, TRUE), MetricsRow("b.png", 21758, FALSE)>>,
        local |-> <<MetricsRow("a.png", 21758, FALSE)>> ],
      [ aws |-> <<MetricsRow("b.png", 21758, FALSE), MetricsRow("a.png", 200000, TRUE)>>,
        local |-> <<MetricsRow("a.png", 200000, TRUE), MetricsRow("b.png", 21758, FALSE)>> ],
      [ aws |-> <<>>, local |-> <<>> ] }

\* lines 31-46: values a row takes from the stream
DrawsTaken(is_aws, row) == IF is_aws /\ row.cold_start THEN 2 ELSE 1

RECURSIVE RowOverheads(_, _, _)
\* lines 27-46, row after row: the total overhead of each row, from the
\* values left in the stream
RowOverheads(rows, is_aws, draws) ==
    IF rows = <<>>
    THEN <<>>
    ELSE LET row == Head(rows)
             taken == DrawsTaken(is_aws, row)
             o == Overhead(is_aws, row.cold_start, draws[1], draws[taken])
         IN  <<o.total_overhead>> \o
             RowOverheads(Tail(rows), is_aws, SubSeq(draws, taken + 1, Len(draws)))

\* line 49 for every row: only processing_latency_ms is assigned
VariedRows(rows, is_aws, draws) ==
    LET total_overhead == RowOverheads(rows, is_aws, draws)
    IN  [ i \in DOMAIN rows |->
            [ rows[i] EXCEPT !.processing_latency_ms =
                RoundHalfEven(10 * @ + total_overhead[i], 10) ] ]

\* the function without its line 25: the rows are assigned in the table of
\* the caller
add_realistic_variation_in_place(df, is_aws, draws) ==
    [ df |-> VariedRows(df, is_aws, draws),
      returned |-> VariedRows(df, is_aws, draws) ]

\* lines 14-51: df is the table of the caller once the function has returned,
\* returned the table it hands back; line 25 copies, so the rows are assigned
\* in the copy
add_realistic_variation(df, is_aws, draws) ==
    [ df |-> df,
      returned |-> VariedRows(df, is_aws, draws) ]

RECURSIVE TakenBy(_, _)
\* values of the stream used up by the rows
TakenBy(rows, is_aws) ==
    IF rows = <<>> THEN 0
    ELSE DrawsTaken(is_aws, Head(rows)) + TakenBy(Tail(rows), is_aws)

\* the two metrics files are there, written by the extractor
MetricsWritten(files, stream) ==
    /\ ~rv.present
    /\ rv' = [ present |-> TRUE,
               runs |-> 0,
               stream |-> stream,
               original |-> files,
               files |-> files,
               aws_df |-> <<>>,
               local_df |-> <<>> ]
    /\ UNCHANGED <<handler_vars, instance, parked, lm, xf, nm, av, sc, rp, up>>

\* lines 54-67: one run of the tool: read both files, vary the cloud rows
\* and then the local rows, write both tables over the files read
VariationMain ==
    /\ rv.present
    /\ rv.runs < MaxRuns
    /\ LET aws_df == rv.files.aws
           local_df == rv.files.local
           aws == add_realistic_variation(aws_df, TRUE, rv.stream)
           rest == SubSeq(rv.stream, TakenBy(aws_df, TRUE) + 1, Len(rv.stream))
           local == add_realistic_variation(local_df, FALSE, rest)
       IN  rv' = [ rv EXCEPT
                     !.runs = @ + 1,
                     !.aws_df = aws.df,
                     !.local_df = local.df,
                     !.files = [aws |-> aws.returned, local |-> local.returned] ]
    /\ UNCHANGED <<handler_vars, instance, parked, lm, xf, nm, av, sc, rp, up>>

NextRuns ==
    \/ \E files \in MetricsFiles, stream \in DrawStreams : MetricsWritten(files, stream)
    \/ VariationMain

SpecRuns == Init /\ [][NextRuns]_vars

\* the least overhead of a row in its scenario, in thousandths
LeastOverhead(is_aws, cold) ==
    IF is_aws THEN (IF cold THEN 60000 ELSE 10000) ELSE 5000

\* one application turned the rows before into the rows after: as many rows,
\* in the same order, every other column as it was, and a latency that is
\* greater, by the least overhead of the scenario or more, up to the rounding
AppliedOnce(before, after, is_aws) ==
    /\ Len(after) = Len(before)
    /\ \A i \in DOMAIN before :
          /\ after[i].filename = before[i].filename
          /\ after[i].file_size_kb = before[i].file_size_kb
          /\ after[i].cold_start = before[i].cold_start
          /\ after[i].simulated_class = before[i].simulated_class
          /\ DOMAIN after[i] = DOMAIN before[i]
          /\ after[i].processing_latency_ms > before[i].processing_latency_ms
          /\ 10 * after[i].processing_latency_ms - 10 * before[i].processing_latency_ms
                >= LeastOverhead(is_aws, before[i].cold_start) - 5

\* after k runs every row holds its first latency and k overheads, each
\* rounded to hundredths when it was added
HoldsOverheads(first, now, is_aws, draws, k) ==
    LET total_overhead == RowOverheads(first, is_aws, draws)
    IN  /\ Len(now) = Len(first)
        /\ \A i \in DOMAIN first :
              LET added == 10 * now[i].processing_latency_ms
                               - 10 * first[i].processing_latency_ms
              IN  /\ added - k * total_overhead[i] <= 5 * k
                  /\ k * total_overhead[i] - added <= 5 * k
                  /\ added >= k * (LeastOverhead(is_aws, first[i].cold_start) - 5)

\* C25: add_realistic_variation is not idempotent: each application makes
\* the processing_latency_ms of every row greater, by the least overhead of
\* the scenario of the row or more (up to the rounding to two decimals),
\* changes no other column, keeps the number and the order of the rows and
\* leaves the table it was given as it was; main writes the result over the
\* files it read, so after k runs of the tool every row holds k overheads.
C25_EachRunAddsOverhead ==
    /\ [][ (rv.present /\ rv'.runs = rv.runs + 1) =>
              /\ AppliedOnce(rv.files.aws, rv'.files.aws, TRUE)
              /\ AppliedOnce(rv.files.local, rv'.files.local, FALSE)
              /\ rv'.aws_df = rv.files.aws
              /\ rv'.local_df = rv.files.local
              /\ (rv.files.aws # <<>> => rv'.files.aws # rv.files.aws)
              /\ (rv.files.local # <<>> => rv'.files.local # rv.files.local) ]_vars
    /\ [](rv.present =>
              /\ HoldsOverheads(rv.original.aws, rv.files.aws, TRUE, rv.stream, rv.runs)
              /\ HoldsOverheads(rv.original.local, rv.files.local, FALSE,
                                SubSeq(rv.stream, TakenBy(rv.original.aws, TRUE) + 1,
                                       Len(rv.stream)),
                                rv.runs))

\* two runs on a cloud file whose first row is a cold start: the row has
\* gained 120 ms or more, and the local row twice 12.345 ms
C25_Witness ==
    /\ rv.present
    /\ rv.runs = 2
    /\ Len(rv.files.aws) = 2
    /\ rv.files.aws[1].cold_start
    /\ rv.files.aws[1].processing_latency_ms
          >= rv.original.aws[1].processing_latency_ms + 12000
    /\ Len(rv.files.local) = 1
    /\ rv.stream[4] = 12345
    /\ rv.files.local[1].processing_latency_ms
          - rv.original.local[1].processing_latency_ms \in 2468..2470

====
